---- MODULE Spec2Model ----
(***************************************************************************)
(* helperScripts/LJSpeech2HF-Parquet.py: load_ljs_metadata,                *)
(* build_hf_audio_dataset, push_dataset_to_hub and main.                   *)
(*                                                                         *)
(* Strings are sequences of one-character strings, so that str.strip,      *)
(* str.split, list indexing and os.path.join are computed, not assumed.   *)
(* The text written by print is kept as the sequence of the message        *)
(* templates, without the interpolated values.                             *)
(***************************************************************************)
EXTENDS Integers, Sequences, FiniteSets, TLC

\* ------------------------------------------------------------------ bounds
\* lines in the metadata file
MaxLines == 2
\* "|"-separated raw fields in a generated line
MaxFields == 2

\* ---------------------------------------------------------- string helpers
None == "None"

\* str.strip() without arguments removes leading and trailing whitespace
IsSpace(c) == c \in {" ", "\n"}

RECURSIVE lstrip(_)
lstrip(s) ==
    IF s = <<>> THEN s
    ELSE IF IsSpace(Head(s)) THEN lstrip(Tail(s)) ELSE s

RECURSIVE rstrip(_)
rstrip(s) ==
    IF s = <<>> THEN s
    ELSE IF IsSpace(s[Len(s)]) THEN rstrip(SubSeq(s, 1, Len(s) - 1)) ELSE s

strip(s) == rstrip(lstrip(s))

\* position of the first sep in s, 0 when there is none
RECURSIVE find(_, _, _)
find(s, sep, k) ==
    IF k > Len(s) THEN 0
    ELSE IF s[k] = sep THEN k ELSE find(s, sep, k + 1)

\* str.split(sep): always at least one field, empty fields are kept
RECURSIVE split(_, _)
split(s, sep) ==
    LET k == find(s, sep, 1)
    IN  IF k = 0 THEN <<s>>
        ELSE <<SubSeq(s, 1, k - 1)>> \o split(SubSeq(s, k + 1, Len(s)), sep)

\* parts[idx] raises IndexError unless -len <= idx < len
HasIndex(parts, idx) == idx >= -Len(parts) /\ idx < Len(parts)

\* parts[idx] for a valid Python index (0-based, negative from the end)
GetItemFirst(parts, idx) == parts[1]
GetItem(parts, idx) ==
    IF idx < 0 THEN parts[Len(parts) + idx + 1] ELSE parts[idx + 1]

\* os.path.join(a, b) on POSIX: an absolute b discards a
join(a, b) ==
    IF b # <<>> /\ Head(b) = "/" THEN b
    ELSE IF a = <<>> \/ a[Len(a)] = "/" THEN a \o b
    ELSE a \o <<"/">> \o b

\* --------------------------------------------------- arguments and inputs
root_dir   == <<"r">>
wav_subdir == <<"w", "a", "v", "s">>
audio_ext  == <<".", "w", "a", "v">>
repo_id    == "Thorsten-Voice/TV-24kHz-Full"
sampling_rate == 24000

\* wav_rel and wav_path of an utterance id
wav_path_of(utt_id) == join(root_dir, join(wav_subdir, utt_id \o audio_ext))

\* the raw fields lines are generated from
FieldPool == { <<>>, <<"a">>, <<" ", "b", " ">> }

RECURSIVE JoinFields(_)
JoinFields(fs) ==
    IF Len(fs) = 1 THEN fs[1]
    ELSE fs[1] \o <<"|">> \o JoinFields(Tail(fs))

FieldSeqs == UNION { [1..n -> FieldPool] : n \in 1..MaxFields }

\* every line ends with its newline, as iterating a text file yields it
Lines ==
    { JoinFields(fs) \o <<"\n">> : fs \in FieldSeqs }
    \cup { <<" ", "\n">>,
           <<"/", "a", "|", "b", "\n">>,
           <<"a", "|", " ", "b", " ", "|", "a", "\n">>,
           <<"a", "|", "|", "b", "\n">>,
           <<"|", "a", "|", "b", "\n">>,
           <<" ", "a", " ", "|", "a", "|", "\n">> }

MainLines ==
    { <<"a", "|", "b", "\n">>,
      <<"a", "|", " ", "b", " ", "|", "a", "\n">>,
      <<"b", "|", "a", "\n">>,
      <<"a", "\n">>,
      <<"\n">> }

TextColumnIndexes == { -3, -1, 0, 2 }

\* the audio files that may exist on disk
FileSystems ==
    { {},
      { wav_path_of(<<"a">>) },
      { wav_path_of(<<>>) },
      { wav_path_of(<<"a">>), wav_path_of(<<>>) },
      { wav_path_of(<<"a">>), wav_path_of(<<"/", "a">>) } }

\* ------------------------------------------------------------------ state
VARIABLES
    pc,                 \* position in main / load_ljs_metadata
    error,              \* the exception that ended the run, or None
    out,                \* the lines printed so far
    meta_exists,        \* os.path.isfile(meta_path)
    files,              \* the audio files on disk
    text_column_index,  \* argument of load_ljs_metadata
    nlines,             \* number of lines of the metadata file
    i,                  \* number of the next line the file iterator yields
    line,               \* the line read last
    data,               \* the list load_ljs_metadata builds
    ds,                 \* <<>>, or the Dataset build_hf_audio_dataset returned
    arg_hf_token,       \* --hf-token
    hf_token,           \* hf_token inside push_dataset_to_hub
    env_token,          \* HF_TOKEN in the environment
    env_read,           \* os.getenv("HF_TOKEN") was called
    private,            \* --hf-private
    repos,              \* the dataset repositories on the Hub
    calls               \* the calls made to the Hub in this run

vars == << pc, error, out, meta_exists, files, text_column_index, nlines, i,
           line, data, ds, arg_hf_token, hf_token, env_token, env_read,
           private, repos, calls >>

loadVars == << meta_exists, files, text_column_index, nlines >>
hubVars  == << arg_hf_token, hf_token, env_token, env_read, private, repos,
               calls >>

\* ------------------------------------------------------ printed messages
INFO_LOADING  == "[INFO] Loading metadata..."
WARN_COLUMNS  == "[WARN] malformed metadata line (too few columns)"
WARN_INDEX    == "[WARN] text_column_index invalid for line"
WARN_AUDIO    == "[WARN] audio file not found, skipping"
INFO_FOUND    == "[INFO] Found valid examples"
INFO_BUILDING == "[INFO] Building HF audio dataset..."
PRINT_DS      == "Dataset"
INFO_PUSHING  == "[INFO] Pushing dataset to hub"
INFO_DONE     == "[INFO] Done. Dataset uploaded."

Warnings == { WARN_COLUMNS, WARN_INDEX, WARN_AUDIO }

\* --------------------------------------------------------- the exceptions
FileNotFound == "FileNotFoundError: metadata file not found"
NoValidRows  == "RuntimeError: No valid rows found in metadata file."
NoToken      == "RuntimeError: No HF token found."
HubError     == "HfHubHTTPError"
Conflict     == "HfHubHTTPError: 409 Conflict"

\* ------------------------------------------------------ load_ljs_metadata
\* len(parts) < 2
TooFewNever(parts) == FALSE
TooFew(parts) == Len(parts) < 2

\* os.path.isfile(wav_path)
isfileAlways(path) == TRUE
isfile(path) == path \in files

\* where a `continue` of the loop over the file goes: the next line
continueAborts == "failed"
continue == "load"

\* not data
emptyNever(d) == FALSE
empty(d) == d = <<>>

\* one pass through the body of `for line in f`: what it prints, what it
\* appends to data
loop_body(raw, idx) ==
    LET stripped == strip(raw)
        parts    == split(stripped, "|")
        utt_id   == strip(parts[1])
        wav_path == wav_path_of(utt_id)
    IN  IF stripped = <<>>
            THEN [print |-> <<>>, append |-> <<>>, skip |-> TRUE]
        ELSE IF TooFew(parts)
            THEN [print |-> <<WARN_COLUMNS>>, append |-> <<>>, skip |-> TRUE]
        ELSE IF ~HasIndex(parts, idx)
            THEN [print |-> <<WARN_INDEX>>, append |-> <<>>, skip |-> TRUE]
        ELSE IF ~isfile(wav_path)
            THEN [print |-> <<WARN_AUDIO>>, append |-> <<>>, skip |-> TRUE]
        ELSE [print  |-> <<>>,
              append |-> << [id         |-> utt_id,
                             text       |-> strip(GetItem(parts, idx)),
                             audio_path |-> wav_path] >>,
              skip   |-> FALSE]

\* main prints its first line and calls load_ljs_metadata
MainStart ==
    /\ pc = "main"
    /\ out' = Append(out, INFO_LOADING)
    /\ pc' = "start"
    /\ UNCHANGED << error, loadVars, i, line, data, ds, hubVars >>

\* the metadata file is opened, or found missing
LoadOpen ==
    /\ pc = "start"
    /\ IF meta_exists
          THEN pc' = "load" /\ error' = error
          ELSE pc' = "failed" /\ error' = FileNotFound
    /\ UNCHANGED << out, loadVars, i, line, data, ds, hubVars >>

\* the file iterator yields the next line and the loop body runs on it
LoadLine(pool) ==
    /\ pc = "load"
    /\ i <= nlines
    /\ \E raw \in pool :
          LET r == loop_body(raw, text_column_index)
          IN  /\ line' = raw
              /\ out' = out \o r.print
              /\ data' = data \o r.append
              /\ pc' = IF r.skip THEN continue ELSE "load"
    /\ i' = i + 1
    /\ UNCHANGED << error, loadVars, ds, hubVars >>

\* the file is exhausted: the list is returned, or the function raises
LoadEnd ==
    /\ pc = "load"
    /\ i > nlines
    /\ IF empty(data)
          THEN pc' = "failed" /\ error' = NoValidRows
          ELSE pc' = "loaded" /\ error' = error
    /\ UNCHANGED << out, loadVars, i, line, data, ds, hubVars >>

\* ------------------------------------------------- build_hf_audio_dataset
RECURSIVE dedup_rows(_, _)
dedup_rows(examples, seen) ==
    IF examples = <<>> THEN <<>>
    ELSE IF Head(examples).id \in seen THEN dedup_rows(Tail(examples), seen)
    ELSE << [id    |-> Head(examples).id,
             text  |-> Head(examples).text,
             audio |-> Head(examples).audio_path] >>
         \o dedup_rows(Tail(examples), seen \cup {Head(examples).id})

build_dedup(examples, sr) ==
    [ features |-> [id |-> "string", text |-> "string", audio |-> sr],
      rows     |-> dedup_rows(examples, {}) ]

build_hf_audio_dataset(examples, sr) ==
    [ features |-> [id |-> "string", text |-> "string", audio |-> sr],
      rows     |-> [ k \in 1..Len(examples) |->
                       [id    |-> examples[k].id,
                        text  |-> examples[k].text,
                        audio |-> examples[k].audio_path] ] ]

\* main reports the count, builds the dataset and prints it
Build ==
    /\ pc = "loaded"
    /\ ds' = << build_hf_audio_dataset(data, sampling_rate) >>
    /\ out' = out \o << INFO_FOUND, INFO_BUILDING, PRINT_DS >>
    /\ pc' = "built"
    /\ UNCHANGED << error, loadVars, i, line, data, hubVars >>

\* ---------------------------------------------------- push_dataset_to_hub
\* exist_ok passed to HfApi.create_repo
exist_ok_false == FALSE
exist_ok == TRUE

\* the token after `if hf_token is None: hf_token = os.getenv("HF_TOKEN")`
resolve_env_first(explicit, env) == IF env # None THEN env ELSE explicit
resolve_token(explicit, env) == IF explicit = None THEN env ELSE explicit

\* where an exception raised by a Hub call leaves the run
on_hub_error_retry == "create"
on_hub_error == "failed"

\* main announces the push; push_dataset_to_hub resolves the token
PushResolve ==
    /\ pc = "built"
    /\ out' = Append(out, INFO_PUSHING)
    /\ env_read' = (arg_hf_token = None)
    /\ hf_token' = resolve_token(arg_hf_token, env_token)
    /\ IF hf_token' = None
          THEN pc' = "failed" /\ error' = NoToken
          ELSE pc' = "create" /\ error' = error
    /\ UNCHANGED << loadVars, i, line, data, ds, arg_hf_token, env_token,
                    private, repos, calls >>

\* api.create_repo(repo_id, repo_type="dataset", private, exist_ok, token):
\* the Hub creates the repository, or answers 409 when it exists (an error
\* unless exist_ok), or the request fails
CreateRepo ==
    /\ pc = "create"
    /\ \E transport_ok \in BOOLEAN :
          LET existed == repo_id \in repos
              result  == IF ~transport_ok THEN HubError
                         ELSE IF existed /\ ~exist_ok THEN Conflict
                         ELSE "ok"
          IN  /\ calls' = Append(calls, [op      |-> "create_repo",
                                         token   |-> hf_token,
                                         private |-> private,
                                         existed |-> existed,
                                         result  |-> result])
              /\ repos' = IF transport_ok THEN repos \cup {repo_id} ELSE repos
              /\ IF result = "ok"
                    THEN pc' = "upload" /\ error' = error
                    ELSE pc' = on_hub_error /\ error' = result
    /\ UNCHANGED << out, loadVars, i, line, data, ds, arg_hf_token, hf_token,
                    env_token, env_read, private >>

\* ds.push_to_hub(repo_id, token), then main's last line
PushToHub ==
    /\ pc = "upload"
    /\ \E transport_ok \in BOOLEAN :
          LET result == IF transport_ok THEN "ok" ELSE HubError
          IN  /\ calls' = Append(calls, [op      |-> "push_to_hub",
                                         token   |-> hf_token,
                                         private |-> private,
                                         existed |-> repo_id \in repos,
                                         result  |-> result])
              /\ IF transport_ok
                    THEN /\ pc' = "done"
                         /\ error' = error
                         /\ out' = Append(out, INFO_DONE)
                    ELSE /\ pc' = on_hub_error
                         /\ error' = result
                         /\ out' = out
    /\ UNCHANGED << loadVars, i, line, data, ds, arg_hf_token, hf_token,
                    env_token, env_read, private, repos >>

\* --------------------------------------------------------- specifications
TypeInit ==
    /\ pc = "main"
    /\ error = None
    /\ out = <<>>
    /\ i = 1
    /\ line = <<>>
    /\ data = <<>>
    /\ ds = <<>>
    /\ hf_token = None
    /\ env_read = FALSE
    /\ calls = <<>>
    /\ meta_exists \in BOOLEAN
    /\ files \in FileSystems
    /\ nlines \in 0..MaxLines

\* the whole run of main, on a few lines
Init ==
    /\ TypeInit
    /\ text_column_index \in { -1, 2 }
    /\ arg_hf_token \in { None, "hf_arg" }
    /\ env_token \in { None, "hf_env" }
    /\ private \in BOOLEAN
    /\ repos \in { {}, {repo_id} }

Next ==
    \/ MainStart
    \/ LoadOpen
    \/ LoadLine(MainLines)
    \/ LoadEnd
    \/ Build
    \/ PushResolve
    \/ CreateRepo
    \/ PushToHub

Spec == Init /\ [][Next]_vars

\* ingestion and assembly, on every generated line
InitLoad ==
    /\ TypeInit
    /\ text_column_index \in TextColumnIndexes
    /\ arg_hf_token = None
    /\ env_token = None
    /\ private = FALSE
    /\ repos = {}

NextLoad ==
    \/ MainStart
    \/ LoadOpen
    \/ LoadLine(Lines)
    \/ LoadEnd
    \/ Build

SpecLoad == InitLoad /\ [][NextLoad]_vars

\* ----------------------------------------------------------------- claims
Range(f) == { f[k] : k \in DOMAIN f }
Printed(msg) == msg \in Range(out)
CallCount(op) == Cardinality({ k \in DOMAIN calls : calls[k].op = op })

\* C1: when the metadata file exists and no line yields a record, the run
\* fails with the "no valid rows" error, and neither the dataset build nor
\* any call to the Hub is started.
C1_EmptyDatasetAborts ==
    (meta_exists /\ data = <<>> /\ pc \notin {"main", "start", "load"})
        => /\ pc = "failed"
           /\ error = NoValidRows
           /\ ds = <<>>
           /\ calls = <<>>
           /\ ~Printed(INFO_BUILDING)
           /\ ~Printed(INFO_PUSHING)

\* a file whose only lines were rejected, after the run failed
C1_Witness ==
    /\ error = NoValidRows
    /\ nlines > 0
    /\ \E w \in Warnings : Printed(w)

C2_WitnessExplicit ==
    /\ Len(calls) = 2
    /\ arg_hf_token # None
    /\ env_token # None

\* C3: each Hub call is made at most once in a run; a failed repository
\* creation is not followed by an upload; any failure leaves the run
\* failed, where nothing more happens, and the confirmation line is printed
\* only after a successful upload.
C3_Inv ==
    /\ CallCount("create_repo") <= 1
    /\ CallCount("push_to_hub") <= 1
    /\ (\E k \in DOMAIN calls :
            calls[k].op = "create_repo" /\ calls[k].result # "ok")
          => CallCount("push_to_hub") = 0
    /\ (\E k \in DOMAIN calls : calls[k].result # "ok") => pc = "failed"
    /\ error # None => (pc = "failed" /\ ~Printed(INFO_DONE))
    /\ pc = "failed" => error # None
    /\ Printed(INFO_DONE)
          => /\ Len(calls) = 2
             /\ calls[1].op = "create_repo" /\ calls[1].result = "ok"
             /\ calls[2].op = "push_to_hub" /\ calls[2].result = "ok"
             /\ out[Len(out)] = INFO_DONE

C3_NoRetry ==
    /\ []C3_Inv
    /\ [][pc = "failed" => UNCHANGED vars]_vars

\* the upload failed after the repository was created
C3_Witness ==
    /\ pc = "failed"
    /\ Len(calls) = 2
    /\ calls[2].result = HubError

\* C4: create_repo on a repository that already exists does not fail with
\* the already-exists error and leaves the Hub's repositories unchanged;
\* when the request goes through, the run goes on to the upload and the
\* repository exists afterwards.
C4_Idempotent ==
    [][ (pc = "create" /\ Len(calls') = Len(calls) + 1)
          => LET c == calls'[Len(calls')]
             IN  /\ c.op = "create_repo"
                 /\ c.result # Conflict
                 /\ repo_id \in repos => repos' = repos
                 /\ c.result = "ok" => (pc' = "upload" /\ repo_id \in repos')
       ]_vars

\* the repository existed before create_repo and the run reached the upload
C4_Witness ==
    /\ pc = "upload"
    /\ Len(calls) = 1
    /\ calls[1].existed

\* a step in which the loop body ran on the line now held in line'
LineStep == pc = "load" /\ i' = i + 1

\* whether Python index idx names one of n list elements, and which
Resolves(idx, n) == (IF idx < 0 THEN n + idx ELSE idx) \in 0..(n - 1)
Position(idx, n) == (IF idx < 0 THEN n + idx ELSE idx) + 1

\* C5 as stated: every line with at least two fields whose audio file
\* exists yields exactly one record, with the trimmed first field as id and
\* the trimmed selected field as text (the last field for index -1).
C5_EveryLineWithAudio ==
    [][ LineStep =>
          LET parts == split(strip(line'), "|")
              n     == Len(parts)
          IN  (n >= 2 /\ wav_path_of(strip(parts[1])) \in files)
                 => /\ Len(data') = Len(data) + 1
                    /\ SubSeq(data', 1, Len(data)) = data
                    /\ data'[Len(data')].id = strip(parts[1])
                    /\ text_column_index = -1
                          => data'[Len(data')].text = strip(parts[n])
       ]_vars

\* C5, amended: the same for the lines on which text_column_index also
\* names an existing field; the audio path is the os.path.join of root,
\* wav_subdir and id + audio_ext.
C5_LineWithAudioAndIndex ==
    [][ LineStep =>
          LET parts == split(strip(line'), "|")
              n     == Len(parts)
              idx   == text_column_index
          IN  (n >= 2 /\ Resolves(idx, n)
                      /\ wav_path_of(strip(parts[1])) \in files)
                 => /\ Len(data') = Len(data) + 1
                    /\ SubSeq(data', 1, Len(data)) = data
                    /\ data'[Len(data')].id = strip(parts[1])
                    /\ data'[Len(data')].text = strip(parts[Position(idx, n)])
                    /\ idx = -1 => data'[Len(data')].text = strip(parts[n])
       ]_vars

\* the last field of a three-field line was taken as text, after an earlier
\* record
C5_Witness ==
    /\ text_column_index = -1
    /\ Len(data) = 2
    /\ data[1].text = <<"b">>
    /\ Len(split(strip(line), "|")) = 3
    /\ data[2].text = strip(split(strip(line), "|")[3])

\* C6: a record is appended only for a line with at least two fields on
\* which text_column_index names an existing field; any other line leaves
\* the list as it was, and no line changes the records already in it.
C6_RecordsOnlyFromWellFormedLines ==
    [][ LineStep =>
          LET parts == split(strip(line'), "|")
              n     == Len(parts)
          IN  /\ (n < 2 \/ ~Resolves(text_column_index, n)) => data' = data
              /\ Len(data') >= Len(data)
              /\ SubSeq(data', 1, Len(data)) = data
       ]_vars

\* a line was rejected for its index and another line gave a record
C6_Witness ==
    /\ Printed(WARN_INDEX)
    /\ Len(data) = 1

\* C7: every record of the list, and every row of the dataset built from
\* it, refers to the os.path.join of root, wav_subdir and id + audio_ext,
\* and that file exists.
C7_AudioExists ==
    /\ \A k \in DOMAIN data :
          /\ data[k].audio_path \in files
          /\ data[k].audio_path =
                join(root_dir, join(wav_subdir, data[k].id \o audio_ext))
    /\ \A d \in DOMAIN ds : \A k \in DOMAIN ds[d].rows :
          ds[d].rows[k].audio \in files

\* a line was dropped for its missing audio file and the dataset was built
C7_Witness ==
    /\ Printed(WARN_AUDIO)
    /\ ds # <<>>

\* C8: every record has a non-empty id.
C8_NonEmptyId ==
    \A k \in DOMAIN data : data[k].id # <<>>

\* C9: the dataset has one row per record of the list, in the list's
\* order, also when two records have the same id.
C9_RowPerRecord ==
    \A d \in DOMAIN ds :
        /\ ds[d].features.audio = sampling_rate
        /\ Len(ds[d].rows) = Len(data)
        /\ \A k \in DOMAIN data :
              /\ ds[d].rows[k].id = data[k].id
              /\ ds[d].rows[k].text = data[k].text
              /\ ds[d].rows[k].audio = data[k].audio_path

\* a dataset built from two records with the same id and different texts
C9_Witness ==
    /\ ds # <<>>
    /\ Len(data) = 2
    /\ data[1].id = data[2].id
    /\ data[1].text # data[2].text

\* C10: after any line the loop goes on to the next one without an error;
\* a blank line prints nothing, a rejected non-blank line prints exactly
\* one warning; the function ends only when every line was read, and it
\* fails only when no line gave a record.
C10_Step ==
    LineStep =>
        LET l == strip(line')
        IN  /\ pc' = "load"
            /\ error' = None
            /\ l = <<>> => (out' = out /\ data' = data)
            /\ (l # <<>> /\ data' = data)
                  => /\ Len(out') = Len(out) + 1
                     /\ out'[Len(out')] \in Warnings
                     /\ SubSeq(out', 1, Len(out)) = out
            /\ data' # data => out' = out

C10_Inv ==
    /\ (meta_exists /\ pc \notin {"main", "start", "load"}) => i = nlines + 1
    /\ pc = "failed" => (~meta_exists \/ data = <<>>)
    /\ i <= nlines + 1

C10_LineFailuresAbsorbed ==
    /\ []C10_Inv
    /\ [][C10_Step]_vars

\* the first line was rejected, the second gave the only record, and the
\* list was returned
C10_Witness ==
    /\ pc = "loaded"
    /\ nlines = 2
    /\ Len(data) = 1
    /\ \E w \in Warnings : Printed(w)
    /\ loop_body(line, text_column_index).append = data

====
